---- MODULE Spec2Model ----
(***************************************************************************)
(* Model of src/server.js: the process-wide nonce counter, the fee         *)
(* computation and the transfer engine (performCoreTransfer), driven by    *)
(* concurrent requests.                                                    *)
(*                                                                         *)
(* Units.  Every BigInt of the program (balances, fees per gas, gas cost)  *)
(* is an integer number of gwei (10^9 wei, 10^-9 ETH):                     *)
(* ethers.parseUnits(x, 'gwei') is x, and the constants 0.003 ETH and      *)
(* 0.000001 ETH are written 3000000 and 1000.  Every Number of the program *)
(* (ethAmount, balanceETH, maxSend, finalEthAmount) is an IEEE-754 double, *)
(* computed as the code computes it (parseFloat, -, /, toFixed) by the     *)
(* operators of the section "IEEE-754 double precision"; the value of a    *)
(* transaction is an integer number of wei.  Each process of the model is  *)
(* one asynchronous call chain of the Node.js event loop: an action is the *)
(* synchronous code between two awaits.                                    *)
(***************************************************************************)
EXTENDS Integers, Sequences, FiniteSets, TLC

\* ---------------------------------------------------------------- bounds
NumProcs == 2
MaxCalls == 4
MaxInitCount == 1
MaxCoreCalls == 2

Procs == 1..NumProcs

\* ------------------------------------------------------- program constants
GAS_RESERVE_ETH == 3000000
MIN_AGGRESSIVE_PRIORITY_FEE_GWEI == 5
DefaultGasLimit == 21000
DefaultBaseFee == 20
DustThreshold == 1000
UnknownNonce == -1
RpcUrlCount == 4
DivergenceTolerance == 100000
Absent == -1

VARIABLES
    transactionNonce,   \* the process-wide counter (let transactionNonce)
    chainCount,         \* network: transaction count of the treasury address
    initialCount,       \* network count the counter was synchronised from
    sent,               \* network: nonces of the transactions it accepted
    pc,                 \* per call chain: the await it is suspended at
    req,                \* per call chain: arguments of performCoreTransfer
    currentNonce,       \* local currentNonce of performCoreTransfer
    balance,            \* local balance (gwei)
    feeData,            \* local feeData
    tx,                 \* transaction handed to sendTransaction
    finalEthAmount,     \* local finalEthAmount (a double)
    receipt,            \* local receipt.status (Absent before the wait)
    result,             \* the object the call returned
    calls,              \* history: calls of performCoreTransfer so far
    otherReserved,      \* history: another call reserved while this one runs
    run,                \* history: the reservations since the last decrement
    sending,            \* lines 137-153 on their own: inputs and wei value
    currentRpcIndex,    \* cursor into RPC_URLS (let currentRpcIndex)
    provider,           \* index in RPC_URLS of the endpoint of provider
    TREASURY_WALLET,    \* "configured" (line 30) or "signer" (signer.address)
    startup,            \* "connecting", "listening" or "exited"
    attempts,           \* history: calls of initProvider so far
    job                 \* per call chain: executeWithdrawalStrategy's frame

startupVars == <<currentRpcIndex, provider, TREASURY_WALLET, startup, attempts>>

vars == <<transactionNonce, chainCount, initialCount, sent, pc, req,
          currentNonce, balance, feeData, tx, finalEthAmount, receipt,
          result, calls, otherReserved, run, sending, startupVars, job>>

\* ------------------------------------------------------------ JS helpers
\* A BigInt or a field is truthy unless it is undefined/null or 0n.
Truthy(x) == x # Absent /\ x # 0

\* a || b
OrElse(a, b) == IF Truthy(a) THEN a ELSE b

\* ------------------------------------------------ big naturals (for wei)
\* A natural number is the sequence of its base-10000 digits, least
\* significant first, without leading zero digits; zero is << >>.
LimbBase == 10000

RECURSIVE BNorm(_)
BNorm(a) ==
    IF a = << >> THEN a
    ELSE IF a[Len(a)] = 0 THEN BNorm(SubSeq(a, 1, Len(a) - 1)) ELSE a

RECURSIVE BFromInt(_)
BFromInt(n) ==
    IF n = 0 THEN << >> ELSE <<n % LimbBase>> \o BFromInt(n \div LimbBase)

Limb(a, i) == IF i <= Len(a) THEN a[i] ELSE 0

RECURSIVE BAddC(_, _, _)
BAddC(a, b, c) ==
    IF a = << >> /\ b = << >>
    THEN IF c = 0 THEN << >> ELSE <<c>>
    ELSE LET x == Limb(a, 1) + Limb(b, 1) + c
         IN  <<x % LimbBase>>
                 \o BAddC(IF a = << >> THEN a ELSE Tail(a),
                          IF b = << >> THEN b ELSE Tail(b), x \div LimbBase)

BAdd(a, b) == BAddC(a, b, 0)

\* a - b for a >= b
RECURSIVE BSubC(_, _, _)
BSubC(a, b, c) ==
    IF a = << >> THEN << >>
    ELSE LET x == a[1] - Limb(b, 1) - c
         IN  <<IF x < 0 THEN x + LimbBase ELSE x>>
                 \o BSubC(Tail(a), IF b = << >> THEN b ELSE Tail(b),
                          IF x < 0 THEN 1 ELSE 0)

BSub(a, b) == BNorm(BSubC(a, b, 0))

\* -1, 0, 1 as a < b, a = b, a > b
RECURSIVE BCmpFrom(_, _, _)
BCmpFrom(a, b, i) ==
    IF i = 0 THEN 0
    ELSE IF a[i] < b[i] THEN -1
    ELSE IF a[i] > b[i] THEN 1
    ELSE BCmpFrom(a, b, i - 1)

BCmp(a, b) ==
    IF Len(a) < Len(b) THEN -1
    ELSE IF Len(a) > Len(b) THEN 1
    ELSE BCmpFrom(a, b, Len(a))

RECURSIVE BMulC(_, _, _)
BMulC(a, k, c) ==
    IF a = << >> THEN BFromInt(c)
    ELSE LET x == a[1] * k + c
         IN  <<x % LimbBase>> \o BMulC(Tail(a), k, x \div LimbBase)

\* a * k for a small k (k <= 10000)
BMulSmall(a, k) == IF k = 0 THEN << >> ELSE BMulC(a, k, 0)

BDouble(a) == BMulSmall(a, 2)

BOdd(a) == a # << >> /\ a[1] % 2 = 1

\* floor(a / 2)
BHalf(a) ==
    BNorm([i \in 1..Len(a) |->
              (a[i] + (Limb(a, i + 1) % 2) * LimbBase) \div 2])

Pow2(k) == 2 ^ k

\* a * 2^k, thirteen bits at a time
RECURSIVE BShl(_, _)
BShl(a, k) ==
    IF k >= 13 THEN BShl(BMulSmall(a, 8192), k - 13)
    ELSE BMulSmall(a, Pow2(k))

\* a * 10000^k
RECURSIVE BShiftLimbs(_, _)
BShiftLimbs(a, k) ==
    IF k = 0 \/ a = << >> THEN a ELSE BShiftLimbs(<<0>> \o a, k - 1)

\* floor(a / k) and a mod k for a small k, from the most significant digit
RECURSIVE BDivSmallFrom(_, _, _, _)
BDivSmallFrom(a, k, i, rem) ==
    IF i = 0 THEN [q |-> << >>, r |-> rem]
    ELSE LET x == rem * LimbBase + a[i]
             lower == BDivSmallFrom(a, k, i - 1, x % k)
         IN  [q |-> lower.q \o <<x \div k>>, r |-> lower.r]

BDivSmall(a, k) ==
    LET d == BDivSmallFrom(a, k, Len(a), 0)
    IN  [q |-> BNorm(d.q), r |-> d.r]

\* floor(a / 10^18) and whether a is a multiple of 10^18
DivWeiPerEther(a) ==
    IF Len(a) <= 4 THEN [q |-> << >>, exact |-> a = << >>]
    ELSE LET d == BDivSmall(SubSeq(a, 5, Len(a)), 100)
         IN  [q |-> d.q,
              exact |-> d.r = 0 /\ SubSeq(a, 1, 4) = <<0, 0, 0, 0>>]

\* ---------------------------------------------- IEEE-754 double precision
\* A finite double is [neg, m, e]: the value (-1)^neg * m * 2^e with m a big
\* natural below 2^53, and m >= 2^52 unless the value is zero.  The amounts
\* of the program lie between 10^-18 and 10^4, far from the subnormal and
\* the overflow range.
Two52 == BShl(<<1>>, 52)
Two53 == BShl(<<1>>, 53)

FZero == [neg |-> FALSE, m |-> << >>, e |-> 0]

\* Round to nearest, ties to even, of m * 2^e where the bits already dropped
\* are described by guard (the highest of them) and sticky (any other).
RECURSIVE RoundNearestEven(_, _, _, _, _)
RoundNearestEven(neg, m, e, guard, sticky) ==
    IF m = << >> THEN FZero
    ELSE IF BCmp(m, Two52) < 0
    THEN RoundNearestEven(neg, BDouble(m), e - 1, FALSE, FALSE)
    ELSE IF BCmp(m, Two53) >= 0
    THEN RoundNearestEven(neg, BHalf(m), e + 1, BOdd(m), guard \/ sticky)
    ELSE IF guard /\ (sticky \/ BOdd(m))
    THEN LET up == BAdd(m, <<1>>)
         IN  IF BCmp(up, Two53) = 0
             THEN [neg |-> neg, m |-> Two52, e |-> e + 1]
             ELSE [neg |-> neg, m |-> up, e |-> e]
    ELSE [neg |-> neg, m |-> m, e |-> e]

\* One ether in wei.
WeiPerEther == BMulSmall(BShiftLimbs(<<1>>, 4), 100)

WeiPerEtherTwo54 == BShl(WeiPerEther, 54)

\* x * 2^k for a k that makes it at least 10^18 * 2^54
RECURSIVE ScaleUp(_, _)
ScaleUp(x, k) ==
    IF BCmp(x, WeiPerEtherTwo54) >= 0 THEN [x |-> x, k |-> k]
    ELSE ScaleUp(BMulSmall(x, 8192), k + 13)

\* parseFloat(ethers.formatEther(wei)): the double nearest to wei / 10^18.
ParseFloatEther(wei) ==
    IF wei = << >> THEN FZero
    ELSE LET s == ScaleUp(wei, 0)
             d == DivWeiPerEther(s.x)
         IN  RoundNearestEven(FALSE, d.q, 0 - s.k, FALSE, ~d.exact)

\* -1, 0, 1 as |x| < |y|, |x| = |y|, |x| > |y|, for x and y other than zero:
\* both mantissas lie between 2^52 and 2^53, so the exponents decide first.
FMagCmp(x, y) ==
    IF x.e < y.e THEN -1
    ELSE IF x.e > y.e THEN 1
    ELSE BCmp(x.m, y.m)

\* -1, 0, 1 as x < y, x = y, x > y
FCmp(x, y) ==
    IF x.m = << >> /\ y.m = << >> THEN 0
    ELSE IF x.m = << >> THEN (IF y.neg THEN 1 ELSE -1)
    ELSE IF y.m = << >> THEN (IF x.neg THEN -1 ELSE 1)
    ELSE IF x.neg # y.neg THEN (IF x.neg THEN -1 ELSE 1)
    ELSE IF x.neg THEN 0 - FMagCmp(x, y) ELSE FMagCmp(x, y)

FNeg(x) == IF x.m = << >> THEN x ELSE [x EXCEPT !.neg = ~x.neg]

\* x + y, correctly rounded
FAdd(x, y) ==
    IF x.m = << >> THEN y
    ELSE IF y.m = << >> THEN x
    ELSE LET e0 == IF x.e < y.e THEN x.e ELSE y.e
             a == BShl(x.m, x.e - e0)
             b == BShl(y.m, y.e - e0)
         IN  IF x.neg = y.neg
             THEN RoundNearestEven(x.neg, BAdd(a, b), e0, FALSE, FALSE)
             ELSE IF BCmp(a, b) >= 0
             THEN RoundNearestEven(x.neg, BSub(a, b), e0, FALSE, FALSE)
             ELSE RoundNearestEven(y.neg, BSub(b, a), e0, FALSE, FALSE)

\* x - y, correctly rounded
FSub(x, y) == FAdd(x, FNeg(y))

\* floor(a / 2^k), thirteen bits at a time
RECURSIVE BShr(_, _)
BShr(a, k) ==
    IF k >= 13 THEN BShr(BDivSmall(a, 8192).q, k - 13)
    ELSE BDivSmall(a, Pow2(k)).q

\* ethers.parseEther(x.toFixed(18)) for x >= 0: the integer n nearest to
\* x * 10^18, the larger one on a tie.
ToFixed18Wei(x) ==
    LET p == BMulSmall(BShiftLimbs(x.m, 4), 100)
    IN  IF x.e >= 0 THEN BShl(p, x.e)
        ELSE BHalf(BAdd(BShr(p, (0 - x.e) - 1), <<1>>))

\* Whole gwei to wei.
GweiToWei(g) == BMulSmall(BShiftLimbs(BFromInt(g), 2), 10)

\* The Number a decimal literal or JSON number of g * 10^-9 denotes (0.001 is
\* EthNumber(1000000)): the double nearest to it.
EthNumber(g) == ParseFloatEther(GweiToWei(g))

\* x / k for a positive integer k up to 8192, correctly rounded.
FDivSmall(x, k) ==
    LET d == BDivSmall(BShl(x.m, 14), k)
    IN  RoundNearestEven(x.neg, d.q, x.e - 14, FALSE, d.r # 0)

NoGasConfig == [gasLimit |-> Absent, maxPriorityFeePerGas |-> Absent,
                maxFeePerGas |-> Absent]

NoFeeData == [maxPriorityFeePerGas |-> Absent, gasPrice |-> Absent,
              maxFeePerGas |-> Absent]

NoTx == [nonce |-> UnknownNonce, value |-> << >>, gasLimit |-> 0,
         maxFeePerGas |-> 0, maxPriorityFeePerGas |-> 0]

\* amountETH is FZero in an object that has no such field.
NoResult == [success |-> FALSE, txHash |-> FALSE, amountETH |-> FZero,
             error |-> "none"]

NoRun == [first |-> UnknownNonce, count |-> 0, numbers |-> {}]

NoReq == [strategyId |-> "none", ethAmount |-> FZero,
          gasConfig |-> NoGasConfig]

\* What executeWithdrawalStrategy hands back: the fields of the object it
\* returns (error is "none" when the object has no error field), or the
\* error it throws.
NoOutcome == [success |-> FALSE, error |-> "none", txHash |-> FALSE,
              transactions |-> << >>]

\* The frame of executeWithdrawalStrategy: "at" is the await it is suspended
\* at, "returned" or "thrown" once it has settled.
NoJob == [strategyId |-> "none", ethAmount |-> FZero, at |-> "none",
          primaryBalance |-> Absent, secondaryBalance |-> Absent,
          initialBalance |-> Absent, splitResults |-> << >>,
          outcome |-> NoOutcome]

\* ------------------------------------------------------- fee computation
GasLimitOf(gasConfig) == OrElse(gasConfig.gasLimit, DefaultGasLimit)

AggressivePriorityFee == MIN_AGGRESSIVE_PRIORITY_FEE_GWEI

MaxPriorityFeePerGas(gasConfig, fd) ==
    OrElse(gasConfig.maxPriorityFeePerGas,
           IF Truthy(fd.maxPriorityFeePerGas)
              /\ fd.maxPriorityFeePerGas > AggressivePriorityFee
           THEN fd.maxPriorityFeePerGas
           ELSE AggressivePriorityFee)

EstimatedBaseFee(fd) == OrElse(fd.gasPrice, DefaultBaseFee)

RequiredMinMaxFee(gasConfig, fd) ==
    MaxPriorityFeePerGas(gasConfig, fd) + EstimatedBaseFee(fd) * 3

ProviderMaxFee(fd) == IF Truthy(fd.maxFeePerGas) THEN fd.maxFeePerGas ELSE 0

\* Mutant of MaxFeePerGas: the provider's suggestion alone, without the
\* computed minimum.
MaxFeePerGasProviderOnly(gasConfig, fd) ==
    OrElse(gasConfig.maxFeePerGas, ProviderMaxFee(fd))

MaxFeePerGas(gasConfig, fd) ==
    OrElse(gasConfig.maxFeePerGas,
           IF ProviderMaxFee(fd) > RequiredMinMaxFee(gasConfig, fd)
           THEN ProviderMaxFee(fd)
           ELSE RequiredMinMaxFee(gasConfig, fd))

\* ---------------------------------------------------------- final amount
\* const GAS_RESERVE_ETH = 0.003 and the literal 0.000001 as doubles.
GasReserveDouble == EthNumber(GAS_RESERVE_ETH)

DustDouble == EthNumber(DustThreshold)

\* Line 106: parseFloat(ethers.formatEther(balance)), the balance in gwei.
BalanceETH(bal) == ParseFloatEther(GweiToWei(bal))

\* Line 139: parseFloat(ethers.formatEther(gasLimit * maxFeePerGas)), the
\* fee per gas in gwei.
EstimatedMaxCostETH(gasLimit, maxFeePerGas) ==
    ParseFloatEther(GweiToWei(gasLimit * maxFeePerGas))

\* Line 140, in double precision.
MaxSend(bal, gasLimit, maxFeePerGas) ==
    FSub(FSub(BalanceETH(bal), EstimatedMaxCostETH(gasLimit, maxFeePerGas)),
         GasReserveDouble)

\* Lines 142-143, on doubles.
FinalEthAmount(ethAmount, maxSend) ==
    LET a == IF FCmp(ethAmount, FZero) > 0 THEN ethAmount ELSE maxSend
    IN  IF FCmp(a, maxSend) > 0 THEN maxSend ELSE a

\* Line 145, on doubles.
AmountTooLow(final) ==
    FCmp(final, FZero) <= 0 \/ FCmp(final, DustDouble) < 0

NoAmount == [state |-> "none", balance |-> 0, gasLimit |-> 0,
             maxFeePerGas |-> 0, ethAmount |-> 0, value |-> << >>]

\* ------------------------------------------------------ counter rollback
\* Mutant of CatchRelease: the catch block forgets to give the number back.
CatchReleaseNever(cur, counter) == counter

\* The catch block: the counter after it, given the call's reserved number.
CatchRelease(cur, counter) ==
    IF cur # UnknownNonce /\ cur = counter - 1 THEN counter - 1 ELSE counter

\* The insufficient-funds path: the decrement before the throw, then the
\* catch block the throw lands in.
InsufficientRelease(cur, counter) == CatchRelease(cur, counter - 1)

\* ----------------------------------------------------------- the results
Confirmed(amount) ==
    [success |-> TRUE, txHash |-> TRUE, amountETH |-> amount, error |-> "none"]

Reverted ==
    [success |-> FALSE, txHash |-> TRUE, amountETH |-> FZero,
     error |-> "reverted"]

Caught(msg) ==
    [success |-> FALSE, txHash |-> FALSE, amountETH |-> FZero, error |-> msg]

\* Mutant of ReceiptResult: a reverted receipt is reported like a thrown
\* error, without the hash.
ReceiptResultDropsHash(status, amount) ==
    IF status = 1 THEN Confirmed(amount) ELSE Caught("reverted")

\* What performCoreTransfer returns for a receipt of the given status.
ReceiptResult(status, amount) ==
    IF status = 1 THEN Confirmed(amount) ELSE Reverted

InFlight(p) == pc[p] \in {"fetchCount", "getBalance", "getFeeData", "send", "wait"}

Holding(p) == InFlight(p) /\ currentNonce[p] # UnknownNonce

\* ------------------------------------------------- the callers' requests
\* gasConfig each single-transfer variant of executeWithdrawalStrategy
\* passes to performCoreTransfer.
VariantGasConfig(strategyId) ==
    CASE strategyId = "contract-call" -> [NoGasConfig EXCEPT !.gasLimit = 50000]
      [] strategyId = "timed-release" -> [NoGasConfig EXCEPT !.gasLimit = 75000]
      [] strategyId = "max-priority" ->
             [NoGasConfig EXCEPT !.maxPriorityFeePerGas = 100]
      [] strategyId = "low-base-only" ->
             [NoGasConfig EXCEPT !.maxPriorityFeePerGas = 0]
      [] OTHER -> NoGasConfig

SingleTransferVariants ==
    {"standard-eoa", "contract-call", "timed-release", "consolidate-multi",
     "max-priority", "low-base-only", "ledger-sync", "telegram-notify"}

VariantReq(strategyId, amount) ==
    [strategyId |-> strategyId, ethAmount |-> amount,
     gasConfig |-> VariantGasConfig(strategyId)]

\* POST /execute
ExecuteReq == [strategyId |-> "execute", ethAmount |-> EthNumber(1000000),
               gasConfig |-> [NoGasConfig EXCEPT !.gasLimit = 200000]]

\* A call of performCoreTransfer with a gasConfig of the caller's choice.
DirectReq(amount, gasConfig) ==
    [strategyId |-> "direct", ethAmount |-> amount, gasConfig |-> gasConfig]

\* ------------------------------------------------------------ input sets
\* Concurrent server: max-send withdrawals against a balance that is
\* either too low or sufficient.
ServerBalances == {1000000, 20000000}

ServerFeeData == {[maxPriorityFeePerGas |-> 2, gasPrice |-> 20, maxFeePerGas |-> 45]}

ServerReqs == {VariantReq("standard-eoa", EthNumber(0))}

\* One call at a time: every variant, fee data with absent, zero, small and
\* large fields, amounts around the dust threshold.  The balance 0.003022
\* is too low under the network's fees and leaves 0.000001 ETH, in exact
\* arithmetic, once a gas cost of 21000 gwei and the reserve are taken off.
CoreBalances == {3022000, 20000000, 70000000}

CoreFeeData ==
    [maxPriorityFeePerGas : {Absent, 0, 2, 8},
     gasPrice : {Absent, 0, 30},
     maxFeePerGas : {Absent, 45, 200}]

CoreAmounts == {EthNumber(g) : g \in {0, 1000000}}

DustAmounts == {EthNumber(g) : g \in {DustThreshold - 1, DustThreshold}}

CoreGasConfigs ==
    [gasLimit : {Absent}, maxPriorityFeePerGas : {Absent, 7},
     maxFeePerGas : {Absent, 1, 300}]

CoreReqs ==
    {VariantReq(id, a) : id \in SingleTransferVariants, a \in CoreAmounts}
    \cup {VariantReq("standard-eoa", a) : a \in DustAmounts}
    \cup {ExecuteReq}
    \cup {DirectReq(EthNumber(0), g) : g \in CoreGasConfigs}

\* The amount computation alone: balances up to 2 ETH, fee ceilings from 1 to
\* 299 gwei, a max-send request and two explicit amounts.
AmountBalances ==
    {1000000, 20000000, 89771532, 123456789, 1000000000, 2000000000}

AmountFeeCeilings == {1, 5, 65, 100, 299}

AmountGasLimits == {DefaultGasLimit, 50000}

AmountRequests == {0, 1000000, 500000000}

AmountInputs ==
    [state : {"input"}, balance : AmountBalances,
     gasLimit : AmountGasLimits, maxFeePerGas : AmountFeeCeilings,
     ethAmount : AmountRequests, value : {<< >>}]

\* ------------------------------------------------------------------ Init
\* The state once startup has synchronised the counter with the network.
\* No request has been made yet.
Idle ==
    /\ sent = {}
    /\ pc = [p \in Procs |-> "idle"]
    /\ req = [p \in Procs |-> NoReq]
    /\ currentNonce = [p \in Procs |-> UnknownNonce]
    /\ balance = [p \in Procs |-> 0]
    /\ feeData = [p \in Procs |-> NoFeeData]
    /\ tx = [p \in Procs |-> NoTx]
    /\ finalEthAmount = [p \in Procs |-> FZero]
    /\ receipt = [p \in Procs |-> Absent]
    /\ result = [p \in Procs |-> NoResult]
    /\ otherReserved = [p \in Procs |-> FALSE]
    /\ calls = 0
    /\ run = NoRun
    /\ job = [p \in Procs |-> NoJob]

\* The state once the first call of initProvider has synchronised the counter
\* with the network and the server listens.
Started ==
    /\ Idle
    /\ initialCount \in 0..MaxInitCount
    /\ chainCount = initialCount
    /\ transactionNonce = initialCount
    /\ currentRpcIndex = 0
    /\ provider = 0
    /\ TREASURY_WALLET = "signer"
    /\ startup = "listening"
    /\ attempts = 1

Init == Started /\ sending = NoAmount

\* ---------------------------------------------------------- initProvider
\* The state when the module has been loaded: the first call of initProvider
\* (line 382) has run lines 55-58 and awaits getTransactionCount.
InitStart ==
    /\ Idle
    /\ chainCount \in 0..MaxInitCount
    /\ initialCount = UnknownNonce
    /\ transactionNonce = UnknownNonce
    /\ currentRpcIndex = 0
    /\ provider = 0
    /\ TREASURY_WALLET = "signer"
    /\ startup = "connecting"
    /\ attempts = 1
    /\ sending = NoAmount

\* Mutant of RetryAllowed: a single pass over the endpoints.
RetryAllowedOnePass(index) == index < RpcUrlCount

\* The test of line 66, on the incremented cursor.
RetryAllowed(index) == index < RpcUrlCount * 2

\* getTransactionCount answers: line 60 assigns the counter and initProvider
\* resolves, so the server starts listening (lines 382-386).
InitProviderOk ==
    /\ startup = "connecting"
    /\ transactionNonce' = chainCount
    /\ initialCount' = chainCount
    /\ startup' = "listening"
    /\ UNCHANGED <<chainCount, sent, pc, req, currentNonce, balance, feeData,
                   tx, finalEthAmount, receipt, result, calls, otherReserved,
                   run, sending, currentRpcIndex, provider, TREASURY_WALLET,
                   attempts, job>>

\* The attempt throws: the catch block advances the cursor and either calls
\* initProvider again, which runs lines 55-58 on the next endpoint and awaits
\* its count, or exits the process.
InitProviderFail ==
    /\ startup = "connecting"
    /\ currentRpcIndex' = currentRpcIndex + 1
    /\ IF RetryAllowed(currentRpcIndex + 1)
       THEN /\ provider' = (currentRpcIndex + 1) % RpcUrlCount
            /\ TREASURY_WALLET' = "signer"
            /\ attempts' = attempts + 1
            /\ UNCHANGED startup
       ELSE /\ startup' = "exited"
            /\ UNCHANGED <<provider, TREASURY_WALLET, attempts>>
    /\ UNCHANGED <<transactionNonce, chainCount, initialCount, sent, pc, req,
                   currentNonce, balance, feeData, tx, finalEthAmount, receipt,
                   result, calls, otherReserved, run, sending, job>>

\* --------------------------------------------------- performCoreTransfer
\* currentNonce = transactionNonce++ by p, the counter being c.
Reserve(p, c) ==
    /\ currentNonce' = [currentNonce EXCEPT ![p] = c]
    /\ transactionNonce' = c + 1
    /\ run' = [first |-> IF run.count = 0 THEN c ELSE run.first,
               count |-> run.count + 1,
               numbers |-> run.numbers \cup {c}]
    /\ otherReserved' = [q \in Procs |->
                           IF q = p THEN otherReserved[p] ELSE InFlight(q)]

\* The counter becomes c; a decrement ends the run of reservations.
Release(c) ==
    /\ transactionNonce' = c
    /\ run' = IF c # transactionNonce THEN NoRun ELSE run

\* performCoreTransfer returns r: its locals are gone (currentNonce and
\* receipt are kept as the record of what the call held and saw).
Return(p, r) ==
    /\ result' = [result EXCEPT ![p] = r]
    /\ pc' = [pc EXCEPT ![p] = "done"]
    /\ req' = [req EXCEPT ![p] = NoReq]
    /\ balance' = [balance EXCEPT ![p] = 0]
    /\ feeData' = [feeData EXCEPT ![p] = NoFeeData]
    /\ otherReserved' = [otherReserved EXCEPT ![p] = FALSE]
    /\ tx' = [tx EXCEPT ![p] = NoTx]
    /\ finalEthAmount' = [finalEthAmount EXCEPT ![p] = FZero]

\* Entry, up to the first await: the count fetch when the counter is
\* unknown, the balance read (after the reservation) otherwise.
Enter(p, r) ==
    /\ startup = "listening"
    /\ pc[p] \in {"idle", "done"}
    /\ calls < MaxCalls
    /\ calls' = calls + 1
    /\ req' = [req EXCEPT ![p] = r]
    /\ tx' = [tx EXCEPT ![p] = NoTx]
    /\ finalEthAmount' = [finalEthAmount EXCEPT ![p] = FZero]
    /\ receipt' = [receipt EXCEPT ![p] = Absent]
    /\ result' = [result EXCEPT ![p] = NoResult]
    /\ IF transactionNonce = UnknownNonce
       THEN /\ pc' = [pc EXCEPT ![p] = "fetchCount"]
            /\ currentNonce' = [currentNonce EXCEPT ![p] = UnknownNonce]
            /\ otherReserved' = [otherReserved EXCEPT ![p] = FALSE]
            /\ UNCHANGED <<transactionNonce, run>>
       ELSE /\ pc' = [pc EXCEPT ![p] = "getBalance"]
            /\ Reserve(p, transactionNonce)
    /\ UNCHANGED <<chainCount, initialCount, sent, balance, feeData, sending,
                   startupVars>>

\* performCoreTransfer called by a handler that passes its result on.
Call(p, r) == Enter(p, r) /\ UNCHANGED job

\* getTransactionCount answers: the counter is assigned the answer, then
\* read and incremented.
FetchCountOk(p) ==
    /\ UNCHANGED <<calls, sending, startupVars, job>>
    /\ pc[p] = "fetchCount"
    /\ Reserve(p, chainCount)
    /\ pc' = [pc EXCEPT ![p] = "getBalance"]
    /\ UNCHANGED <<chainCount, initialCount, sent, req, balance, feeData, tx,
                   finalEthAmount, receipt, result>>

\* An await of the try block rejects at "at": the catch block runs.
Throw(p, at, msg) ==
    /\ UNCHANGED <<calls, sending, startupVars, job>>
    /\ pc[p] = at
    /\ Release(CatchRelease(currentNonce[p], transactionNonce))
    /\ Return(p, Caught(msg))
    /\ UNCHANGED <<chainCount, initialCount, sent, currentNonce, receipt>>

FetchCountFail(p) == Throw(p, "fetchCount", "network")

GetBalanceOk(p, b) ==
    /\ UNCHANGED <<calls, sending, startupVars, job>>
    /\ pc[p] = "getBalance"
    /\ balance' = [balance EXCEPT ![p] = b]
    /\ pc' = [pc EXCEPT ![p] = "getFeeData"]
    /\ UNCHANGED <<transactionNonce, chainCount, initialCount, sent, req,
                   currentNonce, feeData, tx, finalEthAmount, receipt, result,
                   otherReserved, run>>

GetBalanceFail(p) == Throw(p, "getBalance", "network")

\* getFeeData answers fd: the fees and the amount are computed; the call
\* either fails for insufficient funds or suspends in sendTransaction.
GetFeeDataOk(p, fd) ==
    /\ UNCHANGED <<calls, sending, startupVars, job>>
    /\ pc[p] = "getFeeData"
    /\ LET g == req[p].gasConfig
           maxSend == MaxSend(balance[p], GasLimitOf(g), MaxFeePerGas(g, fd))
           final == FinalEthAmount(req[p].ethAmount, maxSend)
       IN  IF AmountTooLow(final)
           THEN /\ Release(InsufficientRelease(currentNonce[p],
                                               transactionNonce))
                /\ Return(p, Caught("insufficient"))
           ELSE /\ tx' = [tx EXCEPT ![p] =
                           [nonce |-> currentNonce[p],
                            value |-> ToFixed18Wei(final),
                            gasLimit |-> GasLimitOf(g),
                            maxFeePerGas |-> MaxFeePerGas(g, fd),
                            maxPriorityFeePerGas |->
                                MaxPriorityFeePerGas(g, fd)]]
                /\ finalEthAmount' = [finalEthAmount EXCEPT ![p] = final]
                /\ feeData' = [feeData EXCEPT ![p] = fd]
                /\ pc' = [pc EXCEPT ![p] = "send"]
                /\ UNCHANGED <<transactionNonce, run, result, req, balance,
                               otherReserved>>
    /\ UNCHANGED <<chainCount, initialCount, sent, currentNonce, receipt>>

GetFeeDataFail(p) == Throw(p, "getFeeData", "network")

\* The network accepts the transaction: its nonce is neither used on chain
\* nor already pending.
SendOk(p) ==
    /\ UNCHANGED <<calls, sending, startupVars, job>>
    /\ pc[p] = "send"
    /\ tx[p].nonce >= chainCount
    /\ tx[p].nonce \notin sent
    /\ sent' = sent \cup {tx[p].nonce}
    /\ pc' = [pc EXCEPT ![p] = "wait"]
    /\ UNCHANGED <<transactionNonce, chainCount, initialCount, req,
                   currentNonce, balance, feeData, tx, finalEthAmount, receipt,
                   result, otherReserved, run>>

SendFail(p) == Throw(p, "send", "network")

\* The network includes the pending transaction that carries the account's
\* next nonce.
Mine ==
    /\ UNCHANGED <<calls, sending, startupVars, job>>
    /\ chainCount \in sent
    /\ chainCount' = chainCount + 1
    /\ UNCHANGED <<transactionNonce, initialCount, sent, pc, req, currentNonce,
                   balance, feeData, tx, finalEthAmount, receipt, result,
                   otherReserved, run>>

\* tx.wait() resolves with the receipt of the included transaction.
WaitReceipt(p, status) ==
    /\ UNCHANGED <<calls, sending, startupVars, job>>
    /\ pc[p] = "wait"
    /\ tx[p].nonce < chainCount
    /\ receipt' = [receipt EXCEPT ![p] = status]
    /\ Return(p, ReceiptResult(status, finalEthAmount[p]))
    /\ UNCHANGED <<transactionNonce, chainCount, initialCount, sent,
                   currentNonce, run>>

\* tx.wait() rejects.
WaitFail(p) == Throw(p, "wait", "network")

\* ----------------------------------------------- executeWithdrawalStrategy
WITHDRAWAL_STRATEGIES ==
    {"standard-eoa", "check-before", "check-after", "two-factor-auth",
     "contract-call", "timed-release", "micro-split-3", "consolidate-multi",
     "max-priority", "low-base-only", "ledger-sync", "telegram-notify"}

\* The strategy ids a caller of executeWithdrawalStrategy may pass.
StrategyIds == WITHDRAWAL_STRATEGIES \cup {"unknown-id"}

\* Requested amounts: max-send, 0.001 (the third of which is no whole number
\* of wei) and 0.06 (the third of which exceeds what the balances leave).
DispatchAmounts == {EthNumber(g) : g \in {0, 1000000, 60000000}}

Failure(msg) == [NoOutcome EXCEPT !.error = msg]

\* The object performCoreTransfer returned, handed on as it is.
FromResult(r) ==
    [success |-> r.success, error |-> r.error, txHash |-> r.txHash,
     transactions |-> << >>]

RECURSIVE Every(_)
Every(results) ==
    results = << >> \/ (Head(results).success /\ Every(Tail(results)))

\* Line 240: no error field, success when every recorded leg succeeded.
SplitOutcome(results) ==
    [success |-> Every(results), error |-> "none", txHash |-> FALSE,
     transactions |-> results]

\* Line 231: ethAmount / 3 on doubles.
AmountPerTx(ethAmount) == FDivSmall(ethAmount, 3)

\* getTreasuryBalance: the balance, or 0 when the read fails (line 84).
GetTreasuryBalance(ok, b) == IF ok THEN b ELSE 0

\* Math.abs converts its argument with ToNumber, which throws a TypeError
\* when the argument is a BigInt; getBalance resolves to a BigInt.
MathAbsThrows(isBigInt) == isBigInt

Abs(x) == IF x < 0 THEN 0 - x ELSE x

Settle(p, how, o) ==
    job' = [job EXCEPT ![p].at = how, ![p].outcome = o]

CoreUnchanged ==
    UNCHANGED <<transactionNonce, chainCount, initialCount, sent, pc, req,
                currentNonce, balance, feeData, tx, finalEthAmount, receipt,
                result, calls, otherReserved, run>>

\* Entry: lines 186-187, up to the await of getReliableSigner.
ExecuteWithdrawalStrategy(p, id, a) ==
    /\ startup = "listening"
    /\ job[p].at \in {"none", "returned", "thrown"}
    /\ pc[p] \in {"idle", "done"}
    /\ calls < MaxCalls
    /\ job' = [job EXCEPT ![p] = [NoJob EXCEPT !.strategyId = id,
                                               !.ethAmount = a,
                                               !.at = "signer"]]
    /\ CoreUnchanged
    /\ UNCHANGED <<sending, startupVars>>

\* The variants that call performCoreTransfer once and return what it
\* returns.
DispatchTransfer(p) ==
    /\ job[p].at = "signer"
    /\ job[p].strategyId \in SingleTransferVariants
    /\ Enter(p, VariantReq(job[p].strategyId, job[p].ethAmount))
    /\ job' = [job EXCEPT ![p].at = "transfer"]

\* check-before: line 196 awaits the balance over the primary connection.
DispatchCheckBefore(p) ==
    /\ job[p].at = "signer"
    /\ job[p].strategyId = "check-before"
    /\ job' = [job EXCEPT ![p].at = "primary"]
    /\ CoreUnchanged
    /\ UNCHANGED <<sending, startupVars>>

\* check-after: line 203 awaits getTreasuryBalance.
DispatchCheckAfter(p) ==
    /\ job[p].at = "signer"
    /\ job[p].strategyId = "check-after"
    /\ job' = [job EXCEPT ![p].at = "initial"]
    /\ CoreUnchanged
    /\ UNCHANGED <<sending, startupVars>>

\* two-factor-auth: Math.random() < 0.1 rejects, otherwise one transfer.
DispatchTwoFactor(p, rejected) ==
    /\ job[p].at = "signer"
    /\ job[p].strategyId = "two-factor-auth"
    /\ IF rejected
       THEN /\ Settle(p, "returned", Failure("2fa"))
            /\ CoreUnchanged
            /\ UNCHANGED <<sending, startupVars>>
       ELSE /\ Enter(p, VariantReq(job[p].strategyId, job[p].ethAmount))
            /\ job' = [job EXCEPT ![p].at = "transfer"]

\* micro-split-3: lines 231-236, up to the await of getReliableSigner of the
\* first leg.
DispatchSplit(p) ==
    /\ job[p].at = "signer"
    /\ job[p].strategyId = "micro-split-3"
    /\ job' = [job EXCEPT ![p].at = "legSigner"]
    /\ CoreUnchanged
    /\ UNCHANGED <<sending, startupVars>>

\* default: 'Invalid withdrawal strategy ID.'
DispatchInvalid(p) ==
    /\ job[p].at = "signer"
    /\ job[p].strategyId \notin WITHDRAWAL_STRATEGIES
    /\ Settle(p, "returned", Failure("invalid-strategy"))
    /\ CoreUnchanged
    /\ UNCHANGED <<sending, startupVars>>

\* The transfer of a single-transfer variant has returned.
TransferDone(p) ==
    /\ job[p].at = "transfer"
    /\ pc[p] = "done"
    /\ Settle(p, "returned", FromResult(result[p]))
    /\ CoreUnchanged
    /\ UNCHANGED <<sending, startupVars>>

\* check-before, line 196 answers: line 197 awaits the secondary connection.
PrimaryBalanceOk(p, b) ==
    /\ job[p].at = "primary"
    /\ job' = [job EXCEPT ![p].primaryBalance = b, ![p].at = "secondary"]
    /\ CoreUnchanged
    /\ UNCHANGED <<sending, startupVars>>

\* An await of executeWithdrawalStrategy that stands in no try block rejects:
\* the function rejects with the error.
StrategyThrow(p, at) ==
    /\ job[p].at = at
    /\ Settle(p, "thrown", Failure("network"))
    /\ CoreUnchanged
    /\ UNCHANGED <<sending, startupVars>>

PrimaryBalanceFail(p) == StrategyThrow(p, "primary")

\* check-before, line 197 answers: lines 198-201.
SecondaryBalanceOk(p, b) ==
    /\ job[p].at = "secondary"
    /\ IF MathAbsThrows(TRUE)
       THEN /\ job' = [job EXCEPT ![p].secondaryBalance = b,
                                  ![p].at = "thrown",
                                  ![p].outcome = Failure("TypeError")]
            /\ CoreUnchanged
            /\ UNCHANGED <<sending, startupVars>>
       ELSE IF Abs(job[p].primaryBalance - b) > DivergenceTolerance
       THEN /\ job' = [job EXCEPT ![p].secondaryBalance = b,
                                  ![p].at = "returned",
                                  ![p].outcome = Failure("divergence")]
            /\ CoreUnchanged
            /\ UNCHANGED <<sending, startupVars>>
       ELSE /\ Enter(p, VariantReq(job[p].strategyId, job[p].ethAmount))
            /\ job' = [job EXCEPT ![p].secondaryBalance = b,
                                  ![p].at = "transfer"]

SecondaryBalanceFail(p) == StrategyThrow(p, "secondary")

\* check-after, line 203 settles: line 204 calls performCoreTransfer.
InitialBalance(p, ok, b) ==
    /\ job[p].at = "initial"
    /\ Enter(p, VariantReq(job[p].strategyId, job[p].ethAmount))
    /\ job' = [job EXCEPT ![p].initialBalance = GetTreasuryBalance(ok, b),
                          ![p].at = "checked"]

\* check-after, the transfer has returned: lines 205-211.
CheckAfterResult(p) ==
    /\ job[p].at = "checked"
    /\ pc[p] = "done"
    /\ IF result[p].success
       THEN job' = [job EXCEPT ![p].at = "final"]
       ELSE Settle(p, "returned", FromResult(result[p]))
    /\ CoreUnchanged
    /\ UNCHANGED <<sending, startupVars>>

\* check-after, line 206 settles: lines 207-211.
FinalBalance(p, ok, b) ==
    /\ job[p].at = "final"
    /\ IF GetTreasuryBalance(ok, b) >= job[p].initialBalance
       THEN Settle(p, "returned", Failure("balance-did-not-drop"))
       ELSE Settle(p, "returned", FromResult(result[p]))
    /\ CoreUnchanged
    /\ UNCHANGED <<sending, startupVars>>

\* micro-split-3, getReliableSigner of line 236 settles: the leg's transfer
\* is called with a third of the amount.
LegSigner(p) ==
    /\ job[p].at = "legSigner"
    /\ Enter(p, [strategyId |-> job[p].strategyId,
                 ethAmount |-> AmountPerTx(job[p].ethAmount),
                 gasConfig |-> NoGasConfig])
    /\ job' = [job EXCEPT ![p].at = "leg"]

\* micro-split-3, the leg's transfer has returned: lines 237-240.
LegDone(p) ==
    /\ job[p].at = "leg"
    /\ pc[p] = "done"
    /\ LET results == Append(job[p].splitResults, result[p])
       IN  IF ~result[p].success \/ Len(results) = 3
           THEN job' = [job EXCEPT ![p].splitResults = results,
                                   ![p].at = "returned",
                                   ![p].outcome = SplitOutcome(results)]
           ELSE job' = [job EXCEPT ![p].splitResults = results,
                                   ![p].at = "legSigner"]
    /\ CoreUnchanged
    /\ UNCHANGED <<sending, startupVars>>

\* ------------------------------------------------------------- the server
Next ==
    \/ \E p \in Procs, r \in ServerReqs : Call(p, r)
    \/ \E p \in Procs : FetchCountOk(p)
    \/ \E p \in Procs : FetchCountFail(p)
    \/ \E p \in Procs, b \in ServerBalances : GetBalanceOk(p, b)
    \/ \E p \in Procs : GetBalanceFail(p)
    \/ \E p \in Procs, fd \in ServerFeeData : GetFeeDataOk(p, fd)
    \/ \E p \in Procs : GetFeeDataFail(p)
    \/ \E p \in Procs : SendOk(p)
    \/ \E p \in Procs : SendFail(p)
    \/ Mine
    \/ \E p \in Procs, s \in {0, 1} : WaitReceipt(p, s)
    \/ \E p \in Procs : WaitFail(p)

Spec == Init /\ [][Next]_vars

\* ------------------------------------------------- one call at a time
\* One caller that makes up to MaxCoreCalls calls, each after the other has
\* returned.
NextCore ==
    \/ \E r \in CoreReqs : calls < MaxCoreCalls /\ Call(1, r)
    \/ \E b \in CoreBalances : GetBalanceOk(1, b)
    \/ GetBalanceFail(1)
    \/ \E fd \in CoreFeeData : GetFeeDataOk(1, fd)
    \/ GetFeeDataFail(1)
    \/ SendOk(1)
    \/ SendFail(1)
    \/ Mine
    \/ \E s \in {0, 1} : WaitReceipt(1, s)
    \/ WaitFail(1)

CoreSpec == Init /\ [][NextCore]_vars

\* ------------------------------------------- the amount, to the wei
\* Lines 139-153 applied to the drawn inputs: the transfer is rejected as
\* too low, or value is the wei amount handed to sendTransaction.
ResolveAmount ==
    /\ sending.state = "input"
    /\ LET maxSend == MaxSend(sending.balance, sending.gasLimit,
                              sending.maxFeePerGas)
           final == FinalEthAmount(EthNumber(sending.ethAmount), maxSend)
       IN  sending' = IF AmountTooLow(final)
                     THEN [sending EXCEPT !.state = "rejected"]
                     ELSE [sending EXCEPT !.state = "sent",
                                         !.value = ToFixed18Wei(final)]
    /\ UNCHANGED <<transactionNonce, chainCount, initialCount, sent, pc, req,
                   currentNonce, balance, feeData, tx, finalEthAmount, receipt,
                   result, calls, otherReserved, run, startupVars, job>>

InitAmount == Started /\ sending \in AmountInputs

AmountSpec == InitAmount /\ [][ResolveAmount]_vars

\* ------------------------------------------- one caller, every strategy
NextDispatch ==
    \/ \E id \in StrategyIds, a \in DispatchAmounts :
          ExecuteWithdrawalStrategy(1, id, a)
    \/ DispatchTransfer(1)
    \/ DispatchCheckBefore(1)
    \/ DispatchCheckAfter(1)
    \/ \E rejected \in BOOLEAN : DispatchTwoFactor(1, rejected)
    \/ DispatchSplit(1)
    \/ DispatchInvalid(1)
    \/ TransferDone(1)
    \/ \E b \in ServerBalances : PrimaryBalanceOk(1, b)
    \/ PrimaryBalanceFail(1)
    \/ \E b \in ServerBalances : SecondaryBalanceOk(1, b)
    \/ SecondaryBalanceFail(1)
    \/ \E ok \in BOOLEAN, b \in ServerBalances : InitialBalance(1, ok, b)
    \/ CheckAfterResult(1)
    \/ \E ok \in BOOLEAN, b \in ServerBalances : FinalBalance(1, ok, b)
    \/ LegSigner(1)
    \/ LegDone(1)
    \/ \E b \in ServerBalances : GetBalanceOk(1, b)
    \/ GetBalanceFail(1)
    \/ \E fd \in ServerFeeData : GetFeeDataOk(1, fd)
    \/ GetFeeDataFail(1)
    \/ SendOk(1)
    \/ SendFail(1)
    \/ Mine
    \/ \E s \in {0, 1} : WaitReceipt(1, s)
    \/ WaitFail(1)

DispatchSpec == Init /\ [][NextDispatch]_vars

\* ------------------------------------------- startup, then one caller
\* initProvider's attempts, and the requests of one caller once the server
\* listens.  Every attempt settles: it answers or it throws.
NextStart ==
    \/ InitProviderOk
    \/ InitProviderFail
    \/ \E r \in ServerReqs : Call(1, r)
    \/ \E b \in ServerBalances : GetBalanceOk(1, b)
    \/ GetBalanceFail(1)
    \/ \E fd \in ServerFeeData : GetFeeDataOk(1, fd)
    \/ GetFeeDataFail(1)
    \/ SendOk(1)
    \/ SendFail(1)
    \/ Mine
    \/ \E s \in {0, 1} : WaitReceipt(1, s)
    \/ WaitFail(1)

StartSpec ==
    InitStart /\ [][NextStart]_vars
        /\ WF_vars(InitProviderOk \/ InitProviderFail)

\* ------------------------------------------- the server, with scheduling
\* The event loop resumes every call whose awaited network call has settled
\* (with an answer or an error), and the network includes the pending
\* transaction that carries the account's next nonce.  Nothing obliges a new
\* request to arrive, and tx.wait() has no timeout: it need not reject.
Fairness ==
    /\ \A p \in Procs : WF_vars(FetchCountOk(p) \/ FetchCountFail(p))
    /\ \A p \in Procs :
          WF_vars((\E b \in ServerBalances : GetBalanceOk(p, b))
                      \/ GetBalanceFail(p))
    /\ \A p \in Procs :
          WF_vars(GetFeeDataFail(p)
                      \/ \E fd \in ServerFeeData : GetFeeDataOk(p, fd))
    /\ \A p \in Procs : WF_vars(SendOk(p) \/ SendFail(p))
    /\ WF_vars(Mine)
    /\ \A p \in Procs : WF_vars(\E s \in {0, 1} : WaitReceipt(p, s))

LiveSpec == Init /\ [][Next]_vars /\ Fairness

\* ======================================================================
\* Properties
\* ======================================================================
Returns(p) == pc[p] # "done" /\ pc'[p] = "done"

\* Two amounts in wei that differ by less than one gwei.
WithinOneGwei(a, b) ==
    IF BCmp(a, b) >= 0 THEN BCmp(BSub(a, b), GweiToWei(1)) < 0
    ELSE BCmp(BSub(b, a), GweiToWei(1)) < 0

\* C1: no two transfers that are in flight at the same time hold the same
\* reserved sequence number.
C1_DistinctReserved ==
    \A p, q \in Procs :
        (p # q /\ Holding(p) /\ Holding(q)) => currentNonce[p] # currentNonce[q]

\* C2: whenever no transfer is in flight, every number from the initial
\* network count up to the counter was used by a submitted transaction and
\* no submitted transaction used a number at or above the counter.
C2_CounterMatchesNetwork ==
    (\A p \in Procs : ~InFlight(p)) =>
        /\ \A n \in initialCount..(transactionNonce - 1) : n \in sent
        /\ \A n \in sent : n < transactionNonce

\* C3: a transfer that moves the counter down on its way out holds the
\* number counter - 1 at that moment and moves the counter down by exactly
\* one; with a stale number the counter is left alone.
C3_ReleaseOnlyLatest ==
    [][\A p \in Procs :
          (Returns(p) /\ transactionNonce' # transactionNonce) =>
              /\ currentNonce[p] = transactionNonce - 1
              /\ transactionNonce' = transactionNonce - 1]_vars

\* C4: the numbers returned by the reservations made since the last release
\* are exactly the contiguous range that starts at the first of them, without
\* duplicates, and the counter stands right after that range.
C4_ContiguousReservations ==
    run.count > 0 =>
        /\ run.numbers = run.first..(run.first + run.count - 1)
        /\ transactionNonce = run.first + run.count

\* C5: a call that returns a failure without a transaction hash has not
\* submitted a transaction; a call that returns from the confirmation wait
\* carries the hash and leaves the counter alone.
C5_HashlessNeverSubmitted ==
    [][\A p \in Procs :
          (Returns(p) /\ pc[p] = "wait") =>
              /\ result'[p].success \/ result'[p].txHash
              /\ transactionNonce' = transactionNonce]_vars

\* C6: when the wait yields a receipt, the counter is not decremented; a
\* receipt whose status is not success gives a failure that carries the
\* hash, a successful one gives success with the hash and the amount sent.
C6_ReceiptOutcome ==
    [][\A p \in Procs :
          (pc[p] = "wait" /\ receipt'[p] # Absent) =>
              /\ transactionNonce' = transactionNonce
              /\ pc'[p] = "done"
              /\ result'[p].txHash
              /\ result'[p].success = (receipt'[p] = 1)
              /\ receipt'[p] = 1 =>
                     /\ result'[p].amountETH = finalEthAmount[p]
                     /\ ToFixed18Wei(result'[p].amountETH) = tx[p].value]_vars

C6_Witness ==
    \E p \in Procs :
        /\ pc[p] = "done"
        /\ receipt[p] = 0
        /\ result[p] = Reverted
        /\ transactionNonce > currentNonce[p]

\* C7: a transaction goes out only with an amount above the dust threshold;
\* a call that fails for insufficient funds returns no hash and, when no
\* other transfer reserved in the meantime, leaves the counter at the value
\* it had before the call (the number the call reserved).
C7_DustRejected ==
    [][\A p \in Procs :
          /\ (pc[p] = "getFeeData" /\ pc'[p] = "send") =>
                 /\ FCmp(finalEthAmount'[p], DustDouble) > 0
                 /\ BCmp(tx'[p].value, GweiToWei(DustThreshold)) > 0
          /\ (Returns(p) /\ result'[p].error = "insufficient") =>
                 /\ ~result'[p].success /\ ~result'[p].txHash
                 /\ pc[p] = "getFeeData"
                 /\ ~otherReserved[p] => transactionNonce' = currentNonce[p]]_vars

\* C8: when the balance read, the fee read or the submission fails in a call
\* that holds the number counter - 1, the call gives the number back (the
\* counter returns to that number, which the next reservation receives) and
\* returns a failure without a hash.
C8_ErrorReleasesLatest ==
    [][\A p \in Procs :
          (/\ Returns(p)
           /\ pc[p] \in {"getBalance", "getFeeData", "send"}
           /\ result'[p].error = "network"
           /\ currentNonce[p] = transactionNonce - 1) =>
              /\ transactionNonce' = currentNonce[p]
              /\ transactionNonce' # UnknownNonce
              /\ ~result'[p].success /\ ~result'[p].txHash]_vars

C8_Witness ==
    \E p \in Procs :
        /\ pc[p] = "done"
        /\ result[p] = Caught("network")
        /\ currentNonce[p] # UnknownNonce
        /\ transactionNonce = currentNonce[p]

\* C9: the fee ceiling of a submitted transaction is at least its priority
\* fee plus three times the estimated base fee.
C9_FeeCeiling ==
    \A p \in Procs :
        pc[p] = "wait" =>
            tx[p].maxFeePerGas >=
                tx[p].maxPriorityFeePerGas + 3 * EstimatedBaseFee(feeData[p])

\* C10: the priority fee of a submitted transaction is the caller's override
\* whenever one is supplied, zero included; without an override it is the
\* larger of the network's suggestion and the 5 gwei minimum.
C10_PriorityFee ==
    \A p \in Procs :
        pc[p] = "wait" =>
            LET o == req[p].gasConfig.maxPriorityFeePerGas
                n == feeData[p].maxPriorityFeePerGas
            IN  tx[p].maxPriorityFeePerGas =
                    IF o # Absent THEN o
                    ELSE IF n # Absent /\ n > MIN_AGGRESSIVE_PRIORITY_FEE_GWEI
                         THEN n ELSE MIN_AGGRESSIVE_PRIORITY_FEE_GWEI

\* C11: with affordableMax = balance - feeCeiling x gasLimit - 0.003 ETH, the
\* amount sent is min(requested, affordableMax) for a positive request and
\* affordableMax otherwise, so that value + feeCeiling x gasLimit + reserve
\* never exceeds the balance the transfer read (all in wei).
C11_ResolvedAmount ==
    sending.state = "sent" =>
        LET bal == GweiToWei(sending.balance)
            held == BAdd(GweiToWei(sending.gasLimit * sending.maxFeePerGas),
                         GweiToWei(GAS_RESERVE_ETH))
            requested == GweiToWei(sending.ethAmount)
        IN  /\ BCmp(held, bal) <= 0
            /\ sending.value =
                   IF sending.ethAmount > 0
                      /\ BCmp(BAdd(requested, held), bal) <= 0
                   THEN requested
                   ELSE BSub(bal, held)
            /\ BCmp(BAdd(sending.value, held), bal) <= 0

\* C12: micro-split-3 with amount A.  The legs run one after another and a
\* leg is started only while every earlier leg succeeded; the transaction
\* of each leg carries A/3 (three times its value is within one gwei of A,
\* which leaves room for the rounding of the division); when leg k fails
\* the strategy returns at once with success = false and exactly k leg
\* results, without another transfer; it returns success = true only with
\* three successful legs.
C12_SplitLegs ==
    [][\A p \in Procs :
          /\ (job[p].at = "legSigner" /\ job'[p].at = "leg") =>
                 /\ Len(job[p].splitResults) < 3
                 /\ Every(job[p].splitResults)
                 /\ pc[p] \in {"idle", "done"}
          /\ (job[p].at = "leg" /\ pc[p] = "getFeeData" /\ pc'[p] = "send") =>
                 WithinOneGwei(BMulSmall(tx'[p].value, 3),
                               ToFixed18Wei(job[p].ethAmount))
          /\ (job[p].at = "leg" /\ job'[p].at # "leg"
                  /\ ~result[p].success) =>
                 /\ job'[p].at = "returned"
                 /\ ~job'[p].outcome.success
                 /\ Len(job'[p].outcome.transactions) =
                        Len(job[p].splitResults) + 1
                 /\ calls' = calls
          /\ (job[p].at = "leg" /\ job'[p].at = "returned"
                  /\ job'[p].outcome.success) =>
                 /\ Len(job'[p].outcome.transactions) = 3
                 /\ Every(job'[p].outcome.transactions)]_vars

\* C13: initProvider terminates.  Attempt number n uses the endpoint
\* RPC_URLS[(n - 1) mod 4]; every failure advances the cursor by one; the
\* process exits exactly when the attempt that fails is the eighth; there
\* are never more than 2 x 4 attempts; on success the counter is the network
\* count of the treasury address, which is the signer's address.
C13_StartupTerminates ==
    /\ [](/\ attempts <= 2 * RpcUrlCount
          /\ startup = "connecting" =>
                 /\ attempts = currentRpcIndex + 1
                 /\ provider = currentRpcIndex % RpcUrlCount
          /\ startup = "listening" => TREASURY_WALLET = "signer")
    /\ [][/\ (startup = "connecting" /\ startup' = "listening") =>
                 /\ transactionNonce' = chainCount
                 /\ transactionNonce' # UnknownNonce
          /\ (startup = "connecting" /\ startup' # "listening") =>
                 /\ currentRpcIndex' = currentRpcIndex + 1
                 /\ (startup' = "exited") = (attempts = 2 * RpcUrlCount)
                 /\ (startup' = "connecting") = (attempts' = attempts + 1)
          /\ startup # "connecting" => startup' = startup]_vars
    /\ <>(startup # "connecting")

C13_Witness ==
    /\ startup = "listening"
    /\ currentRpcIndex = 5
    /\ provider = 1
    /\ attempts = 6
    /\ TREASURY_WALLET = "signer"
    /\ initialCount = chainCount
    /\ transactionNonce = initialCount + 1
    /\ pc[1] = "getBalance"

\* C14: whatever the variant, a network call that fails while the request
\* is served never makes executeWithdrawalStrategy throw, and every failure
\* it returns is an object with success = false and an error.
C14_NoThrowPastCore ==
    \A p \in Procs :
        /\ job[p].at = "thrown" => job[p].outcome.error # "network"
        /\ (job[p].at = "returned" /\ ~job[p].outcome.success) =>
               job[p].outcome.error # "none"

\* C15: a request the dispatcher rejects before any transfer (two-factor
\* rejection, unknown id, check-before divergence) returns a failure with an
\* error and touches neither the counter, the reservations nor the network's
\* pending transactions; when the second balance of check-before arrives,
\* the request is rejected if the two balances differ by more than
\* 0.0001 ETH and performs one transfer otherwise.
C15_RejectedBeforeEngine ==
    [][\A p \in Procs :
          /\ (job[p].at \in {"signer", "secondary"}
                  /\ job'[p].at = "returned") =>
                 /\ ~job'[p].outcome.success
                 /\ job'[p].outcome.error # "none"
                 /\ UNCHANGED <<transactionNonce, currentNonce, sent, calls>>
          /\ (job[p].at = "secondary"
                  /\ job'[p].secondaryBalance # Absent) =>
                 IF Abs(job'[p].primaryBalance - job'[p].secondaryBalance)
                        > DivergenceTolerance
                 THEN /\ job'[p].at = "returned"
                      /\ ~job'[p].outcome.success
                      /\ UNCHANGED <<transactionNonce, calls>>
                 ELSE /\ job'[p].at = "transfer"
                      /\ calls' = calls + 1]_vars

\* C16: a transfer that found the counter unknown and whose count fetch
\* completes after another transfer has initialised the counter does not
\* overwrite it: it reserves the counter's current value and moves the
\* counter up by one.
C16_LateFetchKeepsCounter ==
    [][\A p \in Procs :
          (/\ pc[p] = "fetchCount"
           /\ pc'[p] = "getBalance"
           /\ transactionNonce # UnknownNonce) =>
              /\ currentNonce'[p] = transactionNonce
              /\ transactionNonce' = transactionNonce + 1]_vars

\* C17: once synchronised, the counter never falls below the network count
\* it was initialised from, so it never returns to the unknown value -1.
C17_NeverBelowInitial ==
    /\ transactionNonce >= initialCount
    /\ transactionNonce # UnknownNonce

\* C18: every call of performCoreTransfer that is in flight eventually
\* returns, the network answering every call and including every pending
\* transaction that carries the account's next nonce.
C18_EveryCallReturns ==
    \A p \in Procs : InFlight(p) ~> (pc[p] = "done")

\* C19: a transaction a registered variant (or POST /execute) hands to
\* sendTransaction has a fee ceiling at or above its priority fee and carries
\* the number this call reserved as its nonce.
C19_CeilingAbovePriority ==
    \A p \in Procs :
        (pc[p] \in {"send", "wait"} /\ req[p].strategyId # "direct") =>
            /\ tx[p].maxFeePerGas >= tx[p].maxPriorityFeePerGas
            /\ tx[p].nonce = currentNonce[p]
            /\ currentNonce[p] # UnknownNonce

C19_Witness ==
    \E p \in Procs :
        /\ pc[p] = "wait"
        /\ req[p].strategyId = "max-priority"
        /\ feeData[p].maxFeePerGas = Absent
        /\ tx[p].maxPriorityFeePerGas = 100
        /\ tx[p].maxFeePerGas = 190
        /\ tx[p].nonce = currentNonce[p]
        /\ tx[p].nonce \in sent

====
